---- MODULE Spec2Model ----
(***************************************************************************)
(* A model of the RedLock client (src/src/redlock.ts) against one Redis    *)
(* store.                                                                  *)
(*                                                                         *)
(* Time is a discrete clock `now` in milliseconds, shared by the clients   *)
(* (Date.now) and the store (key expiry).  Every store command is three    *)
(* steps: the client issues it, the store applies it atomically (or the    *)
(* transport fails), and the client receives the reply; the clock and the  *)
(* other clients may move between the steps.  One action is one event-loop *)
(* callback together with the promise continuations it runs.               *)
(***************************************************************************)
EXTENDS Integers, Sequences, FiniteSets, TLC

VARIABLES now, store, cl

vars == <<now, store, cl>>

(***************************************************************************)
(* Bounds of the model.                                                    *)
(***************************************************************************)
MaxTime == 4
MaxExt == 2

(***************************************************************************)
(* Engine options (RedLockOptions) the modelled engines are built with.    *)
(***************************************************************************)
RetryCount == 1
RetryDelay == 1
RetryJitter == 2
EngineThreshold == 4

(***************************************************************************)
(* The defaults of the constructor (driftFactor in percent) and the fixed  *)
(* part of the drift compensation.                                         *)
(***************************************************************************)
DefaultRetryCount == 10
DefaultRetryDelay == 200
DefaultRetryJitter == 200
DriftPercent == 1
DefaultThreshold == 100
DriftFixed == 2

Clients == {1, 2}
Keys == {"R"}
TTLs == {3, 4}
Thresholds == {1, 2}

\* TTLs for which floor(ttl * driftFactor) is not zero.
LongTTLs == {250, 1000}

NoToken == 0
NoLease == [key |-> "", value |-> NoToken, validUntil |-> 0]
NoCall == [cmd |-> "none", key |-> "", value |-> NoToken, ttl |-> 0,
           st |-> "none", res |-> "none"]
Free == [val |-> NoToken, exp |-> 0]

(***************************************************************************)
(* The store: the three commands the client sends.                         *)
(***************************************************************************)

\* A conditional set that overwrites a held key (NX dropped).
trySetNoNX(st, key, value, ttl, t) ==
    [st EXCEPT ![key] = [val |-> value, exp |-> t + ttl]]

\* SET key value NX PX ttl
trySet(st, key, value, ttl, t) ==
    IF st[key].val = NoToken
    THEN [st EXCEPT ![key] = [val |-> value, exp |-> t + ttl]]
    ELSE st

\* A compare-delete that skips the comparison.
compareDeleteNoCheck(st, key, value) ==
    [st EXCEPT ![key] = Free]

\* A compare-delete that leaves the key in place.
compareDeleteKeep(st, key, value) == st

\* if get(KEYS[1]) == ARGV[1] then del(KEYS[1]) else 0
compareDelete(st, key, value) ==
    IF st[key].val # NoToken /\ st[key].val = value
    THEN [st EXCEPT ![key] = Free]
    ELSE st

\* A compare-extend that skips the comparison on a present key.
compareExpireNoCheck(st, key, value, ttl, t) ==
    IF st[key].val # NoToken
    THEN [st EXCEPT ![key].exp = t + ttl]
    ELSE st

\* A compare-extend that never brings the expiry forward.
compareExpireLater(st, key, value, ttl, t) ==
    IF st[key].val # NoToken /\ st[key].val = value
    THEN [st EXCEPT ![key].exp = IF @ > t + ttl THEN @ ELSE t + ttl]
    ELSE st

\* if get(KEYS[1]) == ARGV[1] then pexpire(KEYS[1], ARGV[2]) else 0
compareExpire(st, key, value, ttl, t) ==
    IF st[key].val # NoToken /\ st[key].val = value
    THEN [st EXCEPT ![key].exp = t + ttl]
    ELSE st

\* The store after applying a command at time t.
applyCmd(st, call, t) ==
    CASE call.cmd = "set" -> trySet(st, call.key, call.value, call.ttl, t)
      [] call.cmd = "del" -> compareDelete(st, call.key, call.value)
      [] call.cmd = "pexpire" ->
            compareExpire(st, call.key, call.value, call.ttl, t)
      [] OTHER -> st

\* The store's reply: "OK" / "nil" for SET, 1 / 0 for the scripts.
replyOf(st, call) ==
    CASE call.cmd = "set" ->
            IF st[call.key].val = NoToken THEN "OK" ELSE "nil"
      [] OTHER ->
            IF st[call.key].val # NoToken /\ st[call.key].val = call.value
            THEN "1" ELSE "0"

\* Keys whose PX expiry has passed at time t are gone.
expireKeys(st, t) ==
    [k \in Keys |-> IF st[k].val # NoToken /\ st[k].exp <= t THEN Free
                    ELSE st[k]]

(***************************************************************************)
(* The client.                                                             *)
(***************************************************************************)

\* A token shared by every call (no randomness).
generateValueConst(c) == 1

\* generateValue: a statistically unique token, one per acquire call (each
\* client makes one call, so the client's number stands for its token).
generateValue(c) == c

\* A drift compensation without the proportional part.
driftFixedOnly(ttl) == DriftFixed

\* drift = Math.floor(ttl * driftFactor) + 2
drift(ttl) == ((ttl * DriftPercent) \div 100) + DriftFixed

\* Date.now() + ttl - drift
validUntilAt(t, ttl) == t + ttl - drift(ttl)

mkCall(cmd, key, value, ttl) ==
    [cmd |-> cmd, key |-> key, value |-> value, ttl |-> ttl,
     st |-> "sent", res |-> "none"]

\* maxExtensions: undefined, or a number.
Undefined == [def |-> FALSE, n |-> 0]
Num(k) == [def |-> TRUE, n |-> k]
MaxExtensions == {Undefined} \cup {Num(k) : k \in (-1)..MaxExt}

\* option ?? fallback
nullish(option, fallback) == IF option.def THEN option.n ELSE fallback

\* The options the engines of the behavioural specifications are built
\* with (no driftFactor: they use the default).
EngineOpts ==
    [retryCount |-> Num(RetryCount), retryDelay |-> Num(RetryDelay),
     retryJitter |-> Num(RetryJitter), driftFactor |-> Undefined,
     automaticExtensionThreshold |-> Num(EngineThreshold)]

\* Option records: every option is absent or given (the values are those
\* of the custom engine of the tests, driftFactor 0.1 as 10 percent).
OptionSets ==
    [retryCount : {Undefined, Num(3)}, retryDelay : {Undefined, Num(50)},
     retryJitter : {Undefined, Num(25)}, driftFactor : {Undefined, Num(10)},
     automaticExtensionThreshold : {Undefined, Num(150)}]

\* constructor(client, opts): each field is the option, or its default.
constructor(opts) ==
    [retryCount |-> nullish(opts.retryCount, DefaultRetryCount),
     retryDelay |-> nullish(opts.retryDelay, DefaultRetryDelay),
     retryJitter |-> nullish(opts.retryJitter, DefaultRetryJitter),
     driftPercent |-> nullish(opts.driftFactor, DriftPercent),
     automaticExtensionThreshold |->
         nullish(opts.automaticExtensionThreshold, DefaultThreshold)]

\* extensionThreshold of one autoExtendLock call: absent, or a number.
ThresholdOptions == {Undefined} \cup {Num(k) : k \in Thresholds}

\* What the onError observer has been handed, by kind of error, since the
\* last call of acquire, release or extend began (nSet, likewise, counts
\* the conditional sets of the last acquire until the next call begins).
NoError == [kind |-> "none", key |-> "", cause |-> "none"]
NoErrors == [acquisition |-> 0, release |-> 0, extend |-> 0, last |-> NoError]

\* createError: new ErrorClass(message, key, error), an error of the kind of
\* the operation that caught it, with the key and the original error.
createError(error, kind, key) == [kind |-> kind, key |-> key, cause |-> error]

\* An engine whose observer is never called.
handleErrorSilent(r, e) == r

\* onError of an engine: not configured, a function that records the error
\* and returns, or a function that records the error and throws.
Observers == {"none", "quiet", "throws"}

\* handleError: if (this.onError) this.onError(error); what the observer
\* throws leaves handleError.
handleError(r, e) ==
    CASE r.onError = "none" -> r
      [] r.onError = "throws" ->
            [r EXCEPT !.errs[e.kind] = @ + 1, !.errs.last = e,
                      !.thrown = TRUE]
      [] OTHER -> [r EXCEPT !.errs[e.kind] = @ + 1, !.errs.last = e]

\* catch (error): the transport error of a store call is wrapped and handed
\* to the observer.
caught(r, kind, key) == handleError(r, createError("transport", kind, key))

InitClient ==
    [opts |-> EngineOpts,
     retryCount |-> constructor(EngineOpts).retryCount,
     retryDelay |-> constructor(EngineOpts).retryDelay,
     retryJitter |-> constructor(EngineOpts).retryJitter,
     driftPercent |-> constructor(EngineOpts).driftPercent,
     automaticExtensionThreshold |->
         constructor(EngineOpts).automaticExtensionThreshold,
     onError |-> "quiet", thrown |-> FALSE, ret2 |-> "none",
     pc |-> "new", mode |-> "none",
     key |-> "", value |-> NoToken, ttl |-> 0, attempt |-> 0, sleepDue |-> 0,
     lease |-> NoLease, call |-> NoCall, api |-> "none", ret |-> "none",
     released |-> FALSE, errs |-> NoErrors,
     op |-> "none", nOp |-> 0, race |-> "pending",
     timer |-> "none", timerDue |-> 0, timeoutMs |-> 0,
     isReleased |-> FALSE, extensionCount |-> 0,
     maxExtensions |-> Undefined, extensionThreshold |-> Undefined,
     threshold |-> 0,
     renew |-> "off", renewDue |-> 0, rcall |-> NoCall,
     nSet |-> 0, nDel |-> 0, nExt |-> 0]

Max(a, b) == IF a >= b THEN a ELSE b

\* release(lock) is called: the compare-delete is sent.
releaseCall(r) ==
    [r EXCEPT !.call = mkCall("del", r.lease.key, r.lease.value, 0),
              !.ret = "none", !.errs = NoErrors, !.nSet = 0]

\* extend(lock, ttl) is called: the compare-extend is sent.
extendCall(r, ttl) ==
    mkCall("pexpire", r.lease.key, r.lease.value, ttl)

\* A lock that releases only after the operation succeeded (no finally).
lockReleaseOnSuccess(r) ==
    IF r.race = "result"
    THEN [releaseCall(r) EXCEPT !.pc = "releasing", !.nDel = @ + 1]
    ELSE [r EXCEPT !.pc = "done"]

\* The finally block of lock: await this.release(lock).
lockFinally(r) ==
    [releaseCall(r) EXCEPT !.pc = "releasing", !.nDel = @ + 1]

\* An autoExtendLock that releases only after the operation succeeded.
autoReleaseOnSuccess(r) ==
    IF r.race = "result"
    THEN [releaseCall(r) EXCEPT !.pc = "releasing", !.isReleased = TRUE,
                                !.nDel = @ + 1]
    ELSE [r EXCEPT !.pc = "done", !.isReleased = TRUE]

\* The finally block of autoExtendLock: isReleased.value = true, then
\* await this.release(lock).
autoFinally(r) ==
    [releaseCall(r) EXCEPT !.pc = "releasing", !.isReleased = TRUE,
                           !.nDel = @ + 1]

\* withTimeout(fn, ttl)(): the deadline timer is set and fn is invoked.
withTimeoutStart(r, t) ==
    [r EXCEPT !.pc = "running", !.timer = "armed", !.timerDue = t + r.ttl,
              !.op = "running", !.nOp = @ + 1]

\* A withTimeout whose handlers leave the timer running.
withTimeoutSettleNoClear(r, how) ==
    IF r.race = "pending"
    THEN lockFinally([r EXCEPT !.op = how,
                               !.race = IF how = "resolved" THEN "result"
                                        ELSE "operror"])
    ELSE [r EXCEPT !.op = how]

\* A withTimeout whose promise takes the operation's outcome even after the
\* timer has rejected it.
withTimeoutSettleOverride(r, how) ==
    IF r.race = "pending"
    THEN lockFinally([r EXCEPT !.op = how,
                               !.timer = "cleared", !.timerDue = 0,
                               !.race = IF how = "resolved" THEN "result"
                                        ELSE "operror"])
    ELSE [r EXCEPT !.op = how,
                   !.race = IF how = "resolved" THEN "result" ELSE "operror"]

\* withTimeout: fn() settled; clearTimeout(timer), then resolve or reject,
\* which settles the race unless the timer already did.
withTimeoutSettle(r, how) ==
    IF r.race = "pending"
    THEN lockFinally([r EXCEPT !.op = how,
                               !.timer = "cleared", !.timerDue = 0,
                               !.race = IF how = "resolved" THEN "result"
                                        ELSE "operror"])
    ELSE [r EXCEPT !.op = how]

\* A deadline timer whose callback rejects nothing.
withTimeoutFireIdle(r) == [r EXCEPT !.timer = "fired", !.timerDue = 0]

\* withTimeout: the deadline timer fired;
\* reject(new RedLockTimeoutError(`Function timed out`, timeoutMs)).
withTimeoutFire(r) ==
    IF r.race = "pending"
    THEN lockFinally([r EXCEPT !.timer = "fired", !.timerDue = 0,
                               !.race = "timeout", !.timeoutMs = r.ttl])
    ELSE [r EXCEPT !.timer = "fired", !.timerDue = 0]

\* A catch that rejects the outer promise without looking at isReleased.
renewRejectAlways(r, kind) ==
    IF ~r.isReleased
    THEN autoFinally([r EXCEPT !.renew = "done", !.renewDue = 0,
                               !.race = kind])
    ELSE [r EXCEPT !.renew = "done", !.renewDue = 0, !.race = kind]

\* scheduleExtend: extendReject(error) reaches the catch of the first
\* extend(); it rejects the outer promise unless isReleased is set, and the
\* finally block of autoExtendLock runs.
renewReject(r, kind) ==
    IF ~r.isReleased
    THEN autoFinally([r EXCEPT !.renew = "done", !.renewDue = 0,
                               !.race = kind])
    ELSE [r EXCEPT !.renew = "done", !.renewDue = 0]

\* A timer set without the clamp at 0.
renewScheduleRaw(r, t) ==
    [r EXCEPT !.renew = "timer",
              !.renewDue = t + (r.lease.validUntil - t - r.threshold)]

\* setTimeout(extend, Math.max(lock.validUntil - Date.now() - threshold, 0))
renewSchedule(r, t) ==
    [r EXCEPT !.renew = "timer",
              !.renewDue = t + Max(r.lease.validUntil - t - r.threshold, 0)]

\* A budget check that allows one extension too many.
exhaustedOffByOne(r) ==
    /\ r.maxExtensions.def
    /\ r.maxExtensions.n >= 0
    /\ r.extensionCount > r.maxExtensions.n

\* A budget check that takes a negative maxExtensions for a limit.
exhaustedAnyNumber(r) ==
    /\ r.maxExtensions.def
    /\ r.extensionCount >= r.maxExtensions.n

\* maxExtensions !== undefined && maxExtensions >= 0 &&
\* extensionCount >= maxExtensions
exhausted(r) ==
    /\ r.maxExtensions.def
    /\ r.maxExtensions.n >= 0
    /\ r.extensionCount >= r.maxExtensions.n

\* A renewal tick that does not look at the budget.
renewTickNoLimit(r, t) ==
    IF r.isReleased
    THEN [r EXCEPT !.renew = "done", !.renewDue = 0]
    ELSE IF r.lease.validUntil - t < r.threshold
         THEN [r EXCEPT !.renew = "inflight", !.renewDue = 0,
                        !.rcall = extendCall(r, r.ttl),
                        !.nExt = @ + 1]
         ELSE renewSchedule(r, t)

\* A renewal tick that does not read the isReleased flag.
renewTickNoFlag(r, t) ==
    IF r.lease.validUntil - t < r.threshold
    THEN IF exhausted(r)
         THEN renewReject(r, "exhausted")
         ELSE [r EXCEPT !.renew = "inflight", !.renewDue = 0,
                        !.rcall = extendCall(r, r.ttl),
                        !.nExt = @ + 1]
    ELSE renewSchedule(r, t)

\* A renewal tick that extends without looking at the time left.
renewTickEager(r, t) ==
    IF r.isReleased
    THEN [r EXCEPT !.renew = "done", !.renewDue = 0]
    ELSE IF exhausted(r)
         THEN renewReject(r, "exhausted")
         ELSE [r EXCEPT !.renew = "inflight", !.renewDue = 0,
                        !.rcall = extendCall(r, r.ttl),
                        !.nExt = @ + 1]

\* A renewal tick that sets a timer besides sending its extend.
renewTickKeepTimer(r, t) ==
    IF r.isReleased
    THEN [r EXCEPT !.renew = "done", !.renewDue = 0]
    ELSE IF r.lease.validUntil - t < r.threshold
         THEN IF exhausted(r)
              THEN renewReject(r, "exhausted")
              ELSE [r EXCEPT !.renew = "timer", !.renewDue = t,
                             !.rcall = extendCall(r, r.ttl),
                             !.nExt = @ + 1]
         ELSE renewSchedule(r, t)

\* scheduleExtend: one run of the inner extend() (a renewal tick).
renewTick(r, t) ==
    IF r.isReleased
    THEN [r EXCEPT !.renew = "done", !.renewDue = 0]
    ELSE IF r.lease.validUntil - t < r.threshold
         THEN IF exhausted(r)
              THEN renewReject(r, "exhausted")
              ELSE [r EXCEPT !.renew = "inflight", !.renewDue = 0,
                             !.rcall = extendCall(r, r.ttl),
                             !.nExt = @ + 1]
         ELSE renewSchedule(r, t)

\* scheduleExtend: the first extend() runs, then fn() is invoked (the catch
\* handler of the first extend() runs after fn() has started).
scheduleExtend(r, t) ==
    renewTick([r EXCEPT !.pc = "running", !.op = "running", !.nOp = @ + 1,
                        !.extensionCount = 0], t)

\* A loop that schedules another tick after a failed extend.
renewReplyRetry(r, res, t) ==
    IF res = "1"
    THEN renewSchedule(
           [r EXCEPT !.rcall = NoCall,
                     !.lease.validUntil = validUntilAt(t, r.rcall.ttl),
                     !.extensionCount = @ + 1], t)
    ELSE renewSchedule(
           [(IF res = "err" THEN caught(r, "extend", r.lease.key) ELSE r)
              EXCEPT !.rcall = NoCall], t)

\* A loop whose failed extend moves validUntil all the same.
renewReplyStale(r, res, t) ==
    IF res = "1"
    THEN renewSchedule(
           [r EXCEPT !.rcall = NoCall,
                     !.lease.validUntil = validUntilAt(t, r.rcall.ttl),
                     !.extensionCount = @ + 1], t)
    ELSE renewReject([(IF res = "err" THEN caught(r, "extend", r.lease.key) ELSE r)
                        EXCEPT !.rcall = NoCall,
                               !.lease.validUntil =
                                   validUntilAt(t, r.rcall.ttl)],
                     "extfail")

\* scheduleExtend: the continuation of this.extend(lock, ttl) in a tick.
renewReply(r, res, t) ==
    IF res = "1"
    THEN renewSchedule(
           [r EXCEPT !.rcall = NoCall,
                     !.lease.validUntil = validUntilAt(t, r.rcall.ttl),
                     !.extensionCount = @ + 1], t)
    ELSE renewReject([(IF res = "err" THEN caught(r, "extend", r.lease.key) ELSE r)
                        EXCEPT !.rcall = NoCall], "extfail")

\* scheduleExtend: fn() settled; isReleased.value = true, then resolve or
\* reject, and the finally block of autoExtendLock runs.
scheduleExtendSettle(r, how) ==
    IF r.race = "pending"
    THEN autoFinally([r EXCEPT !.op = how, !.isReleased = TRUE,
                               !.race = IF how = "resolved" THEN "result"
                                        ELSE "operror"])
    ELSE [r EXCEPT !.op = how, !.isReleased = TRUE]

\* Callers that go on to run the operation without a lease.
acquireReturnNoCheck(r, t) ==
    CASE r.mode = "lock" -> withTimeoutStart([r EXCEPT !.attempt = 0], t)
      [] r.mode = "auto" -> scheduleExtend([r EXCEPT !.attempt = 0], t)
      [] OTHER ->
            [r EXCEPT !.pc = IF r.lease.value # NoToken THEN "held" ELSE "idle",
                      !.ret = IF r.lease.value # NoToken THEN "lease" ELSE "null",
                      !.ttl = 0, !.attempt = 0]

\* acquire returned (a lease or null) to its caller: the caller of the
\* low-level API, lock or autoExtendLock.
acquireReturn(r, t) ==
    CASE r.mode = "lock" ->
            IF r.lease.value # NoToken
            THEN withTimeoutStart([r EXCEPT !.attempt = 0], t)
            ELSE [r EXCEPT !.pc = "done", !.race = "acqfail", !.attempt = 0]
      [] r.mode = "auto" ->
            IF r.lease.value # NoToken
            THEN scheduleExtend([r EXCEPT !.attempt = 0], t)
            ELSE [r EXCEPT !.pc = "done", !.race = "acqfail", !.attempt = 0]
      [] OTHER ->
            [r EXCEPT !.pc = IF r.lease.value # NoToken THEN "held" ELSE "idle",
                      !.ret = IF r.lease.value # NoToken THEN "lease" ELSE "null",
                      !.ttl = 0, !.attempt = 0]

\* A loop that makes one attempt more than retryCount + 1.
acquireLoopOneMore(r, t) ==
    IF r.attempt <= r.retryCount + 1
    THEN [r EXCEPT !.pc = "acq_wait", !.nSet = @ + 1,
                   !.call = mkCall("set", r.key, r.value, r.ttl)]
    ELSE acquireReturn([r EXCEPT !.lease = NoLease], t)

\* The top of the for loop of acquire: the next attempt, or return null.
acquireLoop(r, t) ==
    IF r.attempt <= r.retryCount
    THEN [r EXCEPT !.pc = "acq_wait", !.nSet = @ + 1,
                   !.call = mkCall("set", r.key, r.value, r.ttl)]
    ELSE acquireReturn([r EXCEPT !.lease = NoLease], t)

\* An acquire that sleeps for the jitter alone.
acquireReplyNoDelay(r, res, t, j) ==
    CASE res = "OK" ->
            acquireReturn(
              [r EXCEPT !.call = NoCall,
                        !.lease = [key |-> r.key, value |-> r.value,
                                   validUntil |-> validUntilAt(t, r.ttl)]], t)
      [] res = "err" ->
            acquireLoop([caught(r, "acquisition", r.key)
                           EXCEPT !.call = NoCall, !.attempt = @ + 1], t)
      [] OTHER ->
            [r EXCEPT !.call = NoCall, !.pc = "acq_sleep",
                      !.sleepDue = t + j]

\* acquire: the continuation after client.set settled with res, at time t,
\* for a jitter j drawn by Math.random.
acquireReply(r, res, t, j) ==
    CASE res = "OK" ->
            acquireReturn(
              [r EXCEPT !.call = NoCall,
                        !.lease = [key |-> r.key, value |-> r.value,
                                   validUntil |-> validUntilAt(t, r.ttl)]], t)
      [] res = "err" ->
            IF caught(r, "acquisition", r.key).thrown
            THEN [caught(r, "acquisition", r.key)
                    EXCEPT !.call = NoCall, !.thrown = FALSE,
                           !.pc = IF r.mode = "acquire" THEN "idle"
                                  ELSE "done",
                           !.ret = "throw", !.ttl = 0, !.attempt = 0]
            ELSE acquireLoop([caught(r, "acquisition", r.key)
                                EXCEPT !.call = NoCall, !.attempt = @ + 1], t)
      [] OTHER ->
            [r EXCEPT !.call = NoCall, !.pc = "acq_sleep",
                      !.sleepDue = t + r.retryDelay + j]

\* release: the continuation after client.eval settled; lock and
\* autoExtendLock settle with the outcome of their race.
releaseReply(r, res, t) ==
    IF res = "err" /\ caught(r, "release", r.lease.key).thrown
    THEN [caught(r, "release", r.lease.key)
            EXCEPT !.call = NoCall, !.thrown = FALSE,
                   !.pc = IF r.mode = "acquire" THEN "held" ELSE "done",
                   !.ret = "throw"]
    ELSE [(IF res = "err" THEN caught(r, "release", r.lease.key) ELSE r)
            EXCEPT !.call = NoCall,
                   !.pc = IF r.mode = "acquire" THEN "held" ELSE "done",
                   !.ret = IF res = "1" THEN "true" ELSE "false",
                   !.released = @ \/ res = "1"]

\* An extend that updates validUntil whatever the store answered.
extendReplyAlways(r, res, t) ==
    [(IF res = "err" THEN caught(r, "extend", r.lease.key) ELSE r)
       EXCEPT !.call = NoCall, !.pc = "held",
              !.ret = IF res = "1" THEN "true" ELSE "false",
              !.lease.validUntil = validUntilAt(t, r.call.ttl)]

\* extend: the continuation after client.eval settled.
extendReply(r, res, t) ==
    IF res = "err" /\ caught(r, "extend", r.lease.key).thrown
    THEN [caught(r, "extend", r.lease.key)
            EXCEPT !.call = NoCall, !.thrown = FALSE, !.pc = "held",
                   !.ret = "throw"]
    ELSE [(IF res = "err" THEN caught(r, "extend", r.lease.key) ELSE r)
            EXCEPT !.call = NoCall, !.pc = "held",
                   !.ret = IF res = "1" THEN "true" ELSE "false",
                   !.lease.validUntil =
                       IF res = "1" THEN validUntilAt(t, r.call.ttl) ELSE @]

\* The continuation of the function that awaits the settled store call.
settled(r, t, j) ==
    CASE r.call.cmd = "set" -> acquireReply(r, r.call.res, t, j)
      [] r.call.cmd = "del" -> releaseReply(r, r.call.res, t)
      [] OTHER -> extendReply(r, r.call.res, t)

\* Math.random() returns one of the values n / RandomSteps of [0, 1).
RandomSteps == 4

\* Math.floor(Math.random() * retryJitter), for Math.random() = n / RandomSteps
randomJitter(n, retryJitter) == (n * retryJitter) \div RandomSteps

\* The jitters Math.random can give.
jitters(retryJitter) ==
    {randomJitter(n, retryJitter) : n \in 0..(RandomSteps - 1)}

Jitters == jitters(RetryJitter)

(***************************************************************************)
(* Actions.                                                                *)
(***************************************************************************)

Init ==
    /\ now = 0
    /\ store = [k \in Keys |-> Free]
    /\ cl = [c \in Clients |-> InitClient]

\* No engine is built yet.
InitConstruct ==
    /\ now = 0
    /\ store = [k \in Keys |-> Free]
    /\ cl = [c \in Clients |-> [InitClient EXCEPT !.pc = "unbuilt"]]

\* new RedLock(client, opts)
Construct(c) ==
    /\ cl[c].pc = "unbuilt"
    /\ \E o \in OptionSets :
          cl' = [cl EXCEPT
                   ![c].pc = "new", ![c].opts = o,
                   ![c].retryCount = constructor(o).retryCount,
                   ![c].retryDelay = constructor(o).retryDelay,
                   ![c].retryJitter = constructor(o).retryJitter,
                   ![c].driftPercent = constructor(o).driftPercent,
                   ![c].automaticExtensionThreshold =
                       constructor(o).automaticExtensionThreshold]
    /\ UNCHANGED <<now, store>>

\* Client 2 is an engine built with retryCount: 0.
InitFailFast ==
    /\ now = 0
    /\ store = [k \in Keys |-> Free]
    /\ cl = [c \in Clients |->
               [InitClient EXCEPT !.retryCount = IF c = 2 THEN 0 ELSE @]]

\* The entry of acquire(key, ttl): a token is generated and the loop starts.
acquire(r, c, mode, k, ttl, t) ==
    acquireLoop([r EXCEPT !.mode = mode, !.key = k,
                          !.value = generateValue(c),
                          !.ttl = ttl, !.attempt = 0], t)

\* A caller invokes acquire(key, ttl) with a ttl of ttls.
CallAcquireWith(c, ttls) ==
    /\ cl[c].pc = "new"
    /\ \E k \in Keys, ttl \in ttls :
          cl' = [cl EXCEPT ![c] =
                    acquire([cl[c] EXCEPT !.api = "acquire"],
                            c, "acquire", k, ttl, now)]
    /\ UNCHANGED <<now, store>>

\* A caller invokes acquire(key, ttl).
CallAcquire(c) == CallAcquireWith(c, TTLs)

\* A caller invokes lock(key, ttl, fn).
CallLock(c) ==
    /\ cl[c].pc = "new"
    /\ \E k \in Keys, ttl \in TTLs :
          cl' = [cl EXCEPT ![c] = acquire(cl[c], c, "lock", k, ttl, now)]
    /\ UNCHANGED <<now, store>>

\* A caller invokes autoExtendLock(key, ttl, fn, options).
CallAutoExtendLock(c) ==
    /\ cl[c].pc = "new"
    /\ \E k \in Keys, ttl \in TTLs, m \in MaxExtensions,
          th \in ThresholdOptions :
          cl' = [cl EXCEPT ![c] =
                    acquire([cl[c] EXCEPT
                               !.maxExtensions = m,
                               !.extensionThreshold = th,
                               !.threshold =
                                   nullish(th,
                                       cl[c].automaticExtensionThreshold)],
                            c, "auto", k, ttl, now)]
    /\ UNCHANGED <<now, store>>

\* The sleep between two attempts of acquire is over.
AcquireWake(c) ==
    /\ cl[c].pc = "acq_sleep"
    /\ now >= cl[c].sleepDue
    /\ cl' = [cl EXCEPT ![c] =
                 acquireLoop([cl[c] EXCEPT !.attempt = @ + 1,
                                           !.sleepDue = 0], now)]
    /\ UNCHANGED <<now, store>>

\* A caller invokes release(lease) on a lease it was given.
CallRelease(c) ==
    /\ cl[c].pc = "held"
    /\ cl[c].mode = "acquire"
    /\ cl' = [cl EXCEPT ![c] = [releaseCall(cl[c]) EXCEPT
                                   !.pc = "rel_wait", !.api = "release"]]
    /\ UNCHANGED <<now, store>>

\* A caller invokes extend(lease, ttl), with a ttl of ttls, on a lease it
\* was given.
CallExtendWith(c, ttls) ==
    /\ cl[c].pc = "held"
    /\ cl[c].mode = "acquire"
    /\ \E ttl \in ttls :
          cl' = [cl EXCEPT ![c].pc = "ext_wait",
                           ![c].api = "extend",
                           ![c].errs = NoErrors,
                           ![c].nSet = 0,
                           ![c].ret = "none",
                           ![c].call = extendCall(cl[c], ttl)]
    /\ UNCHANGED <<now, store>>

\* A caller invokes extend(lease, ttl) on a lease it was given.
CallExtend(c) == CallExtendWith(c, TTLs)

\* A caller invokes extend(lease, ttl) and, without awaiting it,
\* release(lease): both commands are on their way to the store.
CallExtendRelease(c) ==
    /\ cl[c].pc = "held"
    /\ cl[c].mode = "acquire"
    /\ cl[c].api = "acquire"
    /\ \E ttl \in TTLs :
          cl' = [cl EXCEPT ![c].pc = "ext_wait",
                           ![c].api = "both",
                           ![c].errs = NoErrors,
                           ![c].nSet = 0,
                           ![c].ret = "none",
                           ![c].call = extendCall(cl[c], ttl),
                           ![c].rcall = releaseCall(cl[c]).call]
    /\ UNCHANGED <<now, store>>

\* The reply of the release issued beside an extend arrives: release
\* continues and returns to its caller.
RecvRelease(c) ==
    /\ cl[c].rcall.st = "done"
    /\ cl[c].rcall.cmd = "del"
    /\ cl' = [cl EXCEPT
                ![c].rcall = NoCall,
                ![c].ret2 = releaseReply(cl[c], cl[c].rcall.res, now).ret,
                ![c].released =
                    releaseReply(cl[c], cl[c].rcall.res, now).released,
                ![c].errs = releaseReply(cl[c], cl[c].rcall.res, now).errs]
    /\ UNCHANGED <<now, store>>

\* The store applies the command a client sent and answers.
StoreApply(c) ==
    /\ \E slot \in {"call", "rcall"} :
          /\ cl[c][slot].st = "sent"
          /\ store' = applyCmd(store, cl[c][slot], now)
          /\ cl' = [cl EXCEPT ![c][slot].st = "done",
                              ![c][slot].res = replyOf(store, cl[c][slot])]
    /\ UNCHANGED now

\* The transport fails: the command is lost, or it was applied and its
\* reply is lost; the client's call rejects either way.
TransportError(c) ==
    /\ \E slot \in {"call", "rcall"}, applied \in BOOLEAN :
          /\ cl[c][slot].st = "sent"
          /\ store' = IF applied THEN applyCmd(store, cl[c][slot], now)
                      ELSE store
          /\ cl' = [cl EXCEPT ![c][slot].st = "done",
                              ![c][slot].res = "err"]
    /\ UNCHANGED now

\* The client receives the reply and the awaiting function continues.
Recv(c) ==
    /\ cl[c].call.st = "done"
    /\ \E j \in jitters(cl[c].retryJitter) :
          cl' = [cl EXCEPT ![c] = settled(cl[c], now, j)]
    /\ UNCHANGED <<now, store>>

\* The protected operation of lock settles (resolves or rejects).
LockOpSettle(c) ==
    /\ cl[c].mode = "lock"
    /\ cl[c].op = "running"
    /\ \E how \in {"resolved", "rejected"} :
          cl' = [cl EXCEPT ![c] = withTimeoutSettle(cl[c], how)]
    /\ UNCHANGED <<now, store>>

\* The deadline timer of withTimeout fires.
LockTimer(c) ==
    /\ cl[c].timer = "armed"
    /\ now >= cl[c].timerDue
    /\ cl' = [cl EXCEPT ![c] = withTimeoutFire(cl[c])]
    /\ UNCHANGED <<now, store>>

\* The protected operation of autoExtendLock settles.
AutoOpSettle(c) ==
    /\ cl[c].mode = "auto"
    /\ cl[c].op = "running"
    /\ \E how \in {"resolved", "rejected"} :
          cl' = [cl EXCEPT ![c] = scheduleExtendSettle(cl[c], how)]
    /\ UNCHANGED <<now, store>>

\* The renewal timer fires: the next tick of the loop runs.  (The number of
\* extensions of an unlimited loop is capped at MaxExt + 1.)
RenewTimer(c) ==
    /\ cl[c].renew = "timer"
    /\ now >= cl[c].renewDue
    /\ cl[c].extensionCount <= MaxExt
    /\ cl' = [cl EXCEPT ![c] = renewTick(cl[c], now)]
    /\ UNCHANGED <<now, store>>

\* The reply of the compare-extend sent by a tick arrives.
RenewRecv(c) ==
    /\ cl[c].rcall.st = "done"
    /\ cl' = [cl EXCEPT ![c] = renewReply(cl[c], cl[c].rcall.res, now)]
    /\ UNCHANGED <<now, store>>

\* One millisecond passes; the store drops the keys whose expiry is reached.
Tick ==
    /\ now < MaxTime
    /\ now' = now + 1
    /\ store' = expireKeys(store, now + 1)
    /\ UNCHANGED cl

Store ==
    \/ \E c \in Clients : StoreApply(c)
    \/ \E c \in Clients : TransportError(c)
    \/ \E c \in Clients : Recv(c)
    \/ \E c \in Clients : AcquireWake(c)
    \/ Tick

\* Time passes beyond the horizon while an acquire is asleep.
TickOver ==
    /\ now >= MaxTime
    /\ \E c \in Clients : cl[c].pc = "acq_sleep" /\ now < cl[c].sleepDue
    /\ now' = now + 1
    /\ store' = expireKeys(store, now + 1)
    /\ UNCHANGED cl

\* Time passes beyond the horizon while a deadline timer is pending, or a
\* renewal timer whose tick is not due or would only set the next timer.
TickWait ==
    /\ now >= MaxTime
    /\ \E c \in Clients :
          \/ cl[c].timer = "armed" /\ now < cl[c].timerDue
          \/ cl[c].renew = "timer" /\ now < cl[c].renewDue
          \/ /\ cl[c].renew = "timer" /\ ~cl[c].isReleased
             /\ cl[c].lease.validUntil - now >= cl[c].threshold
    /\ now' = now + 1
    /\ store' = expireKeys(store, now + 1)
    /\ UNCHANGED cl

\* Callers of the low-level API: acquire, then release and extend at will.
Next ==
    \/ \E c \in Clients : CallAcquire(c)
    \/ \E c \in Clients : CallRelease(c)
    \/ \E c \in Clients : CallExtend(c)
    \/ Store

Spec == Init /\ [][Next]_vars

\* Callers of acquire, with a store that answers every command (or a
\* transport that fails it), an event loop that runs every continuation and
\* every due timer, and a clock that moves on.
NextAcquire ==
    \/ \E c \in Clients : CallAcquire(c)
    \/ \E c \in Clients : CallRelease(c)
    \/ Store
    \/ TickOver

SpecAcquire ==
    /\ Init /\ [][NextAcquire]_vars
    /\ \A c \in Clients : WF_vars(StoreApply(c) \/ TransportError(c))
    /\ \A c \in Clients : WF_vars(Recv(c))
    /\ \A c \in Clients : WF_vars(AcquireWake(c))
    /\ WF_vars(Tick \/ TickOver)

\* Callers of acquire, one of them on an engine with retryCount: 0.
SpecFailFast == InitFailFast /\ [][NextAcquire]_vars

\* Callers of acquire and extend with long TTLs.
NextLease ==
    \/ \E c \in Clients : CallAcquireWith(c, LongTTLs)
    \/ \E c \in Clients : CallExtendWith(c, LongTTLs)
    \/ Store

SpecLease == Init /\ [][NextLease]_vars

\* Callers of acquire; the first one then calls extend and release at once.
NextConcurrent ==
    \/ \E c \in Clients : CallAcquire(c)
    \/ CallExtendRelease(1)
    \/ RecvRelease(1)
    \/ Store

SpecConcurrent == Init /\ [][NextConcurrent]_vars

\* The engines have any observer, or none.
InitObserver ==
    /\ now = 0
    /\ store = [k \in Keys |-> Free]
    /\ \E o \in Observers :
          cl = [c \in Clients |-> [InitClient EXCEPT !.onError = o]]

\* One caller of the low-level functions.
NextObserver ==
    \/ CallAcquire(1)
    \/ CallRelease(1)
    \/ CallExtend(1)
    \/ Store

SpecObserver == InitObserver /\ [][NextObserver]_vars

\* Engines are built, with any options.
NextConstruct == \E c \in Clients : Construct(c)

SpecConstruct == InitConstruct /\ [][NextConstruct]_vars

\* Callers of lock().
NextLock ==
    \/ \E c \in Clients : CallLock(c)
    \/ \E c \in Clients : LockOpSettle(c)
    \/ \E c \in Clients : LockTimer(c)
    \/ Store

SpecLock == Init /\ [][NextLock]_vars

\* One caller of lock(), whose operation may never settle, with a store
\* that answers every command (or a transport that fails it), an event loop
\* that runs every continuation and every due timer, and a clock that moves
\* on.
NextLockLive ==
    \/ CallLock(1)
    \/ \E c \in Clients : LockOpSettle(c)
    \/ \E c \in Clients : LockTimer(c)
    \/ Store
    \/ TickOver
    \/ TickWait

SpecLockLive ==
    /\ Init /\ [][NextLockLive]_vars
    /\ \A c \in Clients : WF_vars(StoreApply(c) \/ TransportError(c))
    /\ \A c \in Clients : WF_vars(Recv(c))
    /\ \A c \in Clients : WF_vars(AcquireWake(c))
    /\ \A c \in Clients : WF_vars(LockTimer(c))
    /\ WF_vars(Tick \/ TickOver \/ TickWait)

\* One caller of autoExtendLock(), whose operation may never settle, with
\* a store that answers every command (or a transport that fails it), an
\* event loop that runs every continuation and every due timer, and a clock
\* that moves on.
NextAutoLive ==
    \/ CallAutoExtendLock(1)
    \/ \E c \in Clients : AutoOpSettle(c)
    \/ \E c \in Clients : RenewTimer(c)
    \/ \E c \in Clients : RenewRecv(c)
    \/ Store
    \/ TickOver
    \/ TickWait

SpecAutoLive ==
    /\ Init /\ [][NextAutoLive]_vars
    /\ \A c \in Clients : WF_vars(StoreApply(c) \/ TransportError(c))
    /\ \A c \in Clients : WF_vars(Recv(c))
    /\ \A c \in Clients : WF_vars(AcquireWake(c))
    /\ \A c \in Clients : WF_vars(RenewTimer(c))
    /\ \A c \in Clients : WF_vars(RenewRecv(c))
    /\ WF_vars(Tick \/ TickOver \/ TickWait)

\* Callers of autoExtendLock().
NextAuto ==
    \/ CallAutoExtendLock(1)
    \/ \E c \in Clients : AutoOpSettle(c)
    \/ \E c \in Clients : RenewTimer(c)
    \/ \E c \in Clients : RenewRecv(c)
    \/ Store

SpecAuto == Init /\ [][NextAuto]_vars

\* One caller, of lock() or of autoExtendLock().
NextGuarded ==
    \/ CallLock(1)
    \/ CallAutoExtendLock(1)
    \/ \E c \in Clients : LockOpSettle(c)
    \/ \E c \in Clients : LockTimer(c)
    \/ \E c \in Clients : AutoOpSettle(c)
    \/ \E c \in Clients : RenewTimer(c)
    \/ \E c \in Clients : RenewRecv(c)
    \/ Store

SpecGuarded == Init /\ [][NextGuarded]_vars

(***************************************************************************)
(* Properties.                                                             *)
(***************************************************************************)

\* The store applies (or the transport fails) the command c has in flight.
StoreStep(c, cmd) ==
    /\ cl[c].call.cmd = cmd
    /\ cl[c].call.st = "sent"
    /\ cl'[c].call.st = "done"

\* The client continues after the reply of the command it had in flight.
RecvStep(c, cmd) ==
    /\ cl[c].call.cmd = cmd
    /\ cl[c].call.st = "done"
    /\ cl'[c].call = NoCall

\* The clients whose lease is live: the store holds the key under its token.
LiveHolders ==
    {c \in Clients : /\ cl[c].lease.value # NoToken
                     /\ store[cl[c].lease.key].val = cl[c].lease.value}

\* C1: mutual exclusion at the store.  While the store holds a key under a
\* token A, every conditional set another acquire sends for the key with a
\* different token fails and leaves the store as it is (so until the key is
\* released or expires nobody else gets it), and at no time do two clients
\* hold a lease the store still backs.
C1_MutualExclusion ==
    /\ [](Cardinality(LiveHolders) <= 1)
    /\ [][\A c \in Clients :
            (/\ StoreStep(c, "set")
             /\ store[cl[c].call.key].val # NoToken
             /\ store[cl[c].call.key].val # cl[c].call.value)
            => (/\ store' = store
                /\ cl'[c].call.res \in {"nil", "err"})]_vars

\* C1 witness: a client holds a live lease returned by acquire and another
\* acquire's conditional set for the key has been refused.
C1_Witness ==
    \E c, d \in Clients :
       /\ c # d
       /\ cl[c].pc = "held" /\ cl[c].ret = "lease"
       /\ c \in LiveHolders
       /\ cl[d].call.cmd = "set" /\ cl[d].call.st = "done"
       /\ cl[d].call.res = "nil"
       /\ cl[d].call.key = cl[c].lease.key

\* C2: release deletes the key and returns true only when the stored value
\* equals the lease's token; otherwise it returns false and the store is
\* unchanged (a stale holder never removes another holder's key), and no
\* lease is released successfully twice.
C2_ReleaseOwnedOnly ==
    [][\A c \in Clients :
          /\ StoreStep(c, "del") =>
               LET k == cl[c].call.key
                   owned == store[k].val = cl[c].call.value IN
               /\ (cl'[c].call.res = "1") => (owned /\ store'[k] = Free)
               /\ ~owned => (store' = store /\ cl'[c].call.res \in {"0", "err"})
               /\ \A j \in Keys \ {k} : store'[j] = store[j]
          /\ RecvStep(c, "del") =>
               /\ (cl'[c].ret = "true") <=> (cl[c].call.res = "1")
               /\ cl'[c].ret \in {"true", "false"}
               /\ (cl[c].call.res = "1") => ~cl[c].released]_vars

\* C2 witness: a stale holder's release has been refused while the store
\* holds the key under the token of another client, which holds the lease.
C2_Witness ==
    \E c, d \in Clients :
       /\ c # d
       /\ cl[c].pc = "held" /\ cl[c].api = "release" /\ cl[c].ret = "false"
       /\ cl[c].errs.release = 0
       /\ cl[d].pc = "held" /\ d \in LiveHolders
       /\ cl[d].lease.key = cl[c].lease.key

\* C3 as stated: a failed extend (not owned, or a transport error) returns
\* false, leaves validUntil as it was and does not change the key's value
\* or expiry in the store.
C3_FailedExtendChangesNothing ==
    [][\A c \in Clients :
          /\ (StoreStep(c, "pexpire") /\ cl'[c].call.res \in {"0", "err"})
               => store' = store
          /\ (RecvStep(c, "pexpire") /\ cl[c].call.res \in {"0", "err"})
               => (cl'[c].ret = "false" /\ cl'[c].lease = cl[c].lease)]_vars

\* C3 amended: a failed extend returns false and leaves validUntil as it
\* was; the store is unchanged when the key is not held under the lease's
\* token, and a transport error never changes the key's value (the expiry
\* is reset only if the store had applied the command before the error).
C3_FailedExtend ==
    [][\A c \in Clients :
          /\ StoreStep(c, "pexpire") =>
               LET k == cl[c].call.key
                   owned == store[k].val = cl[c].call.value IN
               /\ ~owned => (store' = store /\ cl'[c].call.res \in {"0", "err"})
               /\ (cl'[c].call.res = "0") => store' = store
               /\ store'[k].val = store[k].val
               /\ store'[k].exp \in {store[k].exp, now + cl[c].call.ttl}
          /\ (RecvStep(c, "pexpire") /\ cl[c].call.res \in {"0", "err"})
               => (cl'[c].ret = "false" /\ cl'[c].lease = cl[c].lease)]_vars

\* C3 witness: extend has returned false after a transport error, on a
\* lease whose key the store no longer holds under its token.
C3_Witness ==
    \E c \in Clients :
       /\ cl[c].pc = "held" /\ cl[c].api = "extend" /\ cl[c].ret = "false"
       /\ cl[c].errs.extend = 1
       /\ c \notin LiveHolders

\* The outcomes of lock() after a successful acquisition.
LockExits == {"result", "operror", "timeout"}

\* C4 as stated: on every exit path of lock() exactly one compare-delete is
\* issued before lock() settles, and once it has settled the store does not
\* hold the key under the call's token.
C4_LockReleasesOnEveryExit ==
    \A c \in Clients :
       (cl[c].mode = "lock" /\ cl[c].pc = "done" /\ cl[c].race \in LockExits)
       => (/\ cl[c].nDel = 1
           /\ store[cl[c].key].val # cl[c].value)

\* C4 amended: no compare-delete is issued while the race is undecided,
\* exactly one is issued on every exit path before lock() settles, and once
\* lock() has settled the store does not hold the key under the call's
\* token unless that compare-delete failed with a transport error.
C4_LockReleaseIssued ==
    \A c \in Clients :
       cl[c].mode = "lock" =>
          /\ cl[c].race = "pending" => cl[c].nDel = 0
          /\ cl[c].race \in LockExits =>
                (cl[c].nDel = 1 /\ cl[c].pc \in {"releasing", "done"})
          /\ (cl[c].pc = "done" /\ cl[c].race \in LockExits
                /\ cl[c].errs.release = 0)
                => store[cl[c].key].val # cl[c].value

\* C4 witness: lock() has settled with the timeout error while the
\* operation is still running; its one compare-delete was answered.
C4_Witness ==
    \E c \in Clients :
       /\ cl[c].mode = "lock" /\ cl[c].pc = "done"
       /\ cl[c].race = "timeout" /\ cl[c].op = "running"
       /\ cl[c].nDel = 1 /\ cl[c].errs.release = 0
       /\ store[cl[c].key].val = NoToken

\* The outcomes of autoExtendLock() after a successful acquisition.
AutoExits == {"result", "operror", "exhausted", "extfail"}

\* C5 as stated: whatever resolves the race, autoExtendLock issues a
\* compare-delete after it and before it settles, and the store does not
\* hold the key under the call's token afterwards.
C5_AutoReleasesOnEveryExit ==
    \A c \in Clients :
       (cl[c].mode = "auto" /\ cl[c].pc = "done" /\ cl[c].race \in AutoExits)
       => (/\ cl[c].nDel = 1
           /\ store[cl[c].key].val # cl[c].value)

\* C5 amended: no compare-delete is issued while the race is undecided,
\* exactly one is issued once it is resolved and before autoExtendLock
\* settles, and afterwards the store does not hold the key under the call's
\* token unless that compare-delete failed with a transport error.
C5_AutoReleaseIssued ==
    \A c \in Clients :
       cl[c].mode = "auto" =>
          /\ cl[c].race = "pending" => cl[c].nDel = 0
          /\ cl[c].race \in AutoExits =>
                (cl[c].nDel = 1 /\ cl[c].pc \in {"releasing", "done"})
          /\ (cl[c].pc = "done" /\ cl[c].race \in AutoExits
                /\ cl[c].errs.release = 0)
                => store[cl[c].key].val # cl[c].value

\* C5 witness: autoExtendLock has settled with a renewal-loop error (a
\* failed extend) and its one compare-delete removed the key.
C5_Witness ==
    \E c \in Clients :
       /\ cl[c].mode = "auto" /\ cl[c].pc = "done"
       /\ cl[c].race = "extfail"
       /\ cl[c].nDel = 1 /\ cl[c].ret = "true"
       /\ store[cl[c].key].val = NoToken

\* The invocation has a finite budget maxExtensions = N >= 0.
Limited(c) ==
    /\ cl[c].mode = "auto"
    /\ cl[c].maxExtensions.def
    /\ cl[c].maxExtensions.n >= 0

\* C6: with maxExtensions = N >= 0 the renewal loop of one invocation calls
\* extend at most N times (never, for N = 0).
C6_ExtensionBudget ==
    \A c \in Clients : Limited(c) => cl[c].nExt <= cl[c].maxExtensions.n

\* C6 witness: the budget N > 0 is used up (N extend calls, all successful)
\* and the operation is still running with a renewal timer pending.
C6_Witness ==
    \E c \in Clients :
       /\ Limited(c) /\ cl[c].maxExtensions.n > 0
       /\ cl[c].nExt = cl[c].maxExtensions.n
       /\ cl[c].extensionCount = cl[c].maxExtensions.n
       /\ cl[c].op = "running" /\ cl[c].renew = "timer"

\* C7 (the claim): with maxExtensions = 0 no error of the extension logic is
\* ever the outcome of autoExtendLock.
C7_ZeroBudgetNeverRaises ==
    \A c \in Clients :
       (Limited(c) /\ cl[c].maxExtensions.n = 0)
       => cl[c].race \notin {"exhausted", "extfail"}

C9_ExhaustedLetsOperationFinish ==
    \A c \in Clients :
       (/\ Limited(c) /\ cl[c].maxExtensions.n > 0
        /\ cl[c].extensionCount = cl[c].maxExtensions.n
        /\ cl[c].race # "pending")
       => (/\ cl[c].nExt = cl[c].maxExtensions.n
           /\ cl[c].op # "running"
           /\ cl[c].race = IF cl[c].op = "resolved" THEN "result"
                           ELSE "operror")

\* C10: if the operation settles while the deadline timer is pending, the
\* timer is cancelled and stays so (no timeout is raised), and the outcome
\* of lock() is the operation's own result or error, for good.
C10_OperationFirst ==
    /\ [](\A c \in Clients :
            (cl[c].mode = "lock" /\ cl[c].race \in {"result", "operror"})
            => (/\ cl[c].timer = "cleared"
                /\ cl[c].race = IF cl[c].op = "resolved" THEN "result"
                                ELSE "operror"))
    /\ [][\A c \in Clients :
            (/\ cl[c].mode = "lock" /\ cl[c].timer = "armed"
             /\ cl[c].op = "running" /\ cl'[c].op # "running")
            => (/\ cl'[c].timer = "cleared"
                /\ cl'[c].race = IF cl'[c].op = "resolved" THEN "result"
                                 ELSE "operror")]_vars
    /\ [][\A c \in Clients :
            (cl[c].mode = "lock" /\ cl[c].race \in {"result", "operror"})
            => (cl'[c].race = cl[c].race /\ cl'[c].timer = "cleared")]_vars

\* C10 witness: lock() has settled with the operation's error, the timer
\* cancelled, at a time at which the timer would have fired.
C10_Witness ==
    \E c \in Clients :
       /\ cl[c].mode = "lock" /\ cl[c].pc = "done"
       /\ cl[c].race = "operror" /\ cl[c].op = "rejected"
       /\ cl[c].timer = "cleared"
       /\ now >= MaxTime

\* C11: if the deadline timer fires while the operation is running, the
\* outcome of lock() becomes the timeout error carrying timeoutMs = ttl; the
\* operation is left running, and neither its later result or error nor
\* anything else changes that outcome.
C11_TimerFirst ==
    /\ [][\A c \in Clients :
            (/\ cl[c].mode = "lock" /\ cl[c].timer = "armed"
             /\ cl[c].op = "running" /\ cl'[c].timer = "fired")
            => (/\ cl'[c].race = "timeout"
                /\ cl'[c].timeoutMs = cl[c].ttl
                /\ cl'[c].timeoutMs \in TTLs
                /\ cl'[c].op = "running")]_vars
    /\ [][\A c \in Clients :
            (cl[c].mode = "lock" /\ cl[c].race = "timeout")
            => (/\ cl'[c].race = "timeout"
                /\ cl'[c].timeoutMs = cl[c].timeoutMs
                /\ cl'[c].timer = "fired")]_vars
    /\ [](\A c \in Clients :
            (cl[c].mode = "lock" /\ cl[c].timer = "fired")
            => (cl[c].race = "timeout" /\ cl[c].timeoutMs = cl[c].ttl))

\* C11 witness: lock() has settled with the timeout error and the operation
\* has run to completion afterwards.
C11_Witness ==
    \E c \in Clients :
       /\ cl[c].mode = "lock" /\ cl[c].pc = "done"
       /\ cl[c].race = "timeout" /\ cl[c].timeoutMs = cl[c].ttl
       /\ cl[c].op = "resolved"

\* The client is inside acquire (an attempt in flight, or asleep).
InAcquire(r) == r.pc \in {"acq_wait", "acq_sleep"}

\* C12: lock() and autoExtendLock() invoke the operation exactly once when
\* acquire returns a lease and never when it returns null; in that case they
\* fail with the acquisition error in the same step, with no timer, no
\* renewal loop, no extend and no release.
C12_OperationIffAcquired ==
    /\ [](\A c \in Clients :
            cl[c].mode \in {"lock", "auto"} =>
               /\ cl[c].nOp <= 1
               /\ (cl[c].nOp = 1) <=> (cl[c].op # "none")
               /\ (cl[c].nOp = 1) <=>
                     (~InAcquire(cl[c]) /\ cl[c].lease.value # NoToken)
               /\ (cl[c].race = "acqfail") <=>
                     (~InAcquire(cl[c]) /\ cl[c].lease.value = NoToken)
               /\ cl[c].race = "acqfail" =>
                     /\ cl[c].pc = "done" /\ cl[c].nOp = 0
                     /\ cl[c].timer = "none" /\ cl[c].renew = "off"
                     /\ cl[c].call = NoCall /\ cl[c].rcall = NoCall
                     /\ cl[c].nDel = 0 /\ cl[c].nExt = 0)
    /\ [][\A c \in Clients :
            (/\ cl[c].mode \in {"lock", "auto"}
             /\ InAcquire(cl[c]) /\ ~InAcquire(cl'[c]))
            => \/ /\ cl'[c].lease.value # NoToken
                  /\ cl'[c].nOp = 1
               \/ /\ cl'[c].lease = NoLease
                  /\ cl'[c].race = "acqfail" /\ cl'[c].pc = "done"]_vars

\* C12 witness: autoExtendLock has failed with the acquisition error after
\* every attempt of acquire failed, the operation never invoked.
C12_Witness ==
    \E c \in Clients :
       /\ cl[c].mode = "auto" /\ cl[c].pc = "done"
       /\ cl[c].race = "acqfail" /\ cl[c].nOp = 0
       /\ cl[c].errs.acquisition = RetryCount + 1

\* C13: acquire makes at most retryCount + 1 conditional sets, all with the
\* token generated at its entry; at the first "OK" it returns the lease and
\* sends nothing more; it returns null only after retryCount + 1 failed
\* attempts, and it always returns (a lease or null) when the store answers
\* and timers fire.
C13_AcquireTerminates ==
    /\ [](\A c \in Clients :
            cl[c].mode = "acquire" =>
               /\ cl[c].nSet <= cl[c].retryCount + 1
               /\ cl[c].call.cmd = "set" =>
                     (InAcquire(cl[c]) /\ cl[c].call.value = cl[c].value)
               /\ cl[c].ret = "null" =>
                     /\ cl[c].nSet = cl[c].retryCount + 1
                     /\ cl[c].lease = NoLease /\ cl[c].pc = "idle"
               /\ cl[c].ret = "lease" => cl[c].lease.value = cl[c].value)
    /\ [][\A c \in Clients :
            /\ InAcquire(cl[c]) => cl'[c].value = cl[c].value
            /\ (RecvStep(c, "set") /\ cl[c].call.res = "OK")
                 => (/\ cl'[c].pc = "held" /\ cl'[c].ret = "lease"
                     /\ cl'[c].lease.value = cl[c].call.value
                     /\ cl'[c].nSet = cl[c].nSet)
            /\ (cl[c].mode = "acquire" /\ ~InAcquire(cl[c]))
                 => (~InAcquire(cl'[c]) /\ cl'[c].call.cmd # "set")]_vars
    /\ \A c \in Clients :
          InAcquire(cl[c]) ~> (cl[c].pc \in {"held", "idle"}
                                /\ cl[c].ret \in {"lease", "null"})

\* C13 witness: acquire has returned null after retryCount + 1 attempts,
\* all refused by the store, while another client holds the key.
C13_Witness ==
    \E c, d \in Clients :
       /\ c # d
       /\ cl[c].pc = "idle" /\ cl[c].ret = "null"
       /\ cl[c].nSet = cl[c].retryCount + 1 /\ cl[c].nSet > 1
       /\ cl[c].errs.acquisition = 0
       /\ d \in LiveHolders

\* C14 (the claim): on an engine with retryCount = 0, acquire makes one
\* conditional set at most and never sleeps.
C14_FailFastNoSleep ==
    \A c \in Clients :
       (cl[c].retryCount = 0 /\ cl[c].mode = "acquire")
       => (cl[c].nSet <= 1 /\ cl[c].pc # "acq_sleep")

\* The store call c had in flight has settled and its caller continues.
ReplyStep(c, cmd) ==
    /\ cl[c].call.cmd = cmd
    /\ cl[c].call.st = "done"
    /\ cl'[c] # cl[c]

\* C15 (the claim): an attempt of acquire that ends in a transport error is
\* reported to the observer and, like a refused attempt, followed by a sleep
\* of retryDelay + floor(random() * retryJitter) before the next attempt.
C15_ErrorThenSleep ==
    [][\A c \in Clients :
          (/\ ReplyStep(c, "set")
           /\ cl[c].call.res = "err"
           /\ cl[c].attempt < cl[c].retryCount)
          => (/\ cl'[c].errs.acquisition = cl[c].errs.acquisition + 1
              /\ cl'[c].pc = "acq_sleep"
              /\ cl'[c].call = NoCall
              /\ \E j \in Jitters : cl'[c].sleepDue = now + RetryDelay + j)]_vars

\* The observer is called exactly when a store call ended in a transport
\* error, once, with an error of the kind of the calling operation that
\* carries the key and the original error; release and extend then return
\* false.
ObserverContract ==
    [][\A c \in Clients :
          /\ \A kind \in {"acquisition", "release", "extend"} :
                LET cmd == CASE kind = "acquisition" -> "set"
                             [] kind = "release" -> "del"
                             [] OTHER -> "pexpire" IN
                /\ (ReplyStep(c, cmd) /\ cl[c].call.res = "err")
                     => (/\ cl'[c].errs[kind] = cl[c].errs[kind] + 1
                         /\ cl'[c].errs.last =
                               [kind |-> kind, key |-> cl[c].call.key,
                                cause |-> "transport"])
                /\ cl'[c].errs[kind] > cl[c].errs[kind]
                     => (ReplyStep(c, cmd) /\ cl[c].call.res = "err")
          /\ (ReplyStep(c, "del") /\ cl[c].call.res = "err")
               => cl'[c].ret = "false"
          /\ (ReplyStep(c, "pexpire") /\ cl[c].call.res = "err")
               => cl'[c].ret = "false"
          /\ (ReplyStep(c, "set") /\ cl[c].call.res = "err")
               => cl'[c].lease.value = NoToken]_vars

\* C16 as stated: the observer contract, and an acquire whose conditional
\* set raised a transport error returns null.
C16_ErrorMeansAbsent ==
    /\ ObserverContract
    /\ [](\A c \in Clients :
            (cl[c].api = "acquire" /\ cl[c].errs.acquisition > 0)
            => cl[c].ret \in {"none", "null"})

\* C16 amended: the observer contract, and an acquire whose conditional set
\* raised a transport error counts the attempt as failed: it goes on to the
\* next attempt and returns null only if that was the last one; it returns
\* null whenever every attempt raised a transport error.
C16_NeverThrows ==
    /\ ObserverContract
    /\ [][\A c \in Clients :
            (/\ ReplyStep(c, "set") /\ cl[c].call.res = "err"
             /\ cl[c].mode = "acquire")
            => IF cl[c].attempt < cl[c].retryCount
               THEN /\ cl'[c].ret = "none"
                    /\ cl'[c].call.cmd = "set" /\ cl'[c].call.st = "sent"
               ELSE cl'[c].ret = "null" /\ cl'[c].pc = "idle"]_vars
    /\ [](\A c \in Clients :
            (cl[c].api = "acquire"
               /\ cl[c].errs.acquisition = cl[c].retryCount + 1)
            => cl[c].ret = "null")

\* C16 witness: release has returned false after a transport error and the
\* observer holds a release error with the lease's key and the cause.
C16_Witness ==
    \E c \in Clients :
       /\ cl[c].pc = "held" /\ cl[c].api = "release" /\ cl[c].ret = "false"
       /\ cl[c].errs.release = 1
       /\ cl[c].errs.last = [kind |-> "release", key |-> cl[c].lease.key,
                              cause |-> "transport"]

\* C17: validUntil is only ever set when a conditional set is answered "OK"
\* or a compare-extend is answered 1, and then to the client's clock at
\* that moment + the ttl of that call - (floor(ttl * driftFactor) + 2), by
\* the same formula in acquire and in extend (now + 988 for ttl = 1000).
C17_ValidUntilFormula ==
    [][\A c \in Clients :
          LET ttl == cl[c].call.ttl
              floor == (ttl * DriftPercent) \div 100
              expected == now + ttl - (floor + DriftFixed)
              granted ==
                  \/ (ReplyStep(c, "set") /\ cl[c].call.res = "OK")
                  \/ (ReplyStep(c, "pexpire") /\ cl[c].call.res = "1")
          IN
          /\ granted => cl'[c].lease.validUntil = expected
          /\ (granted /\ ttl = 1000) => cl'[c].lease.validUntil = now + 988
          /\ (cl'[c].lease.validUntil # cl[c].lease.validUntil) => granted]_vars

\* C17 witness: extend(lease, 1000) has just returned true, at a time after
\* the lease was acquired, and validUntil is now + 988.
C17_Witness ==
    \E c \in Clients :
       /\ cl[c].pc = "held" /\ cl[c].api = "extend" /\ cl[c].ret = "true"
       /\ c \in LiveHolders
       /\ cl[c].lease.validUntil = now + 988
       /\ now > 0

\* C18 (the claim): a lease just returned by acquire, or just updated by a
\* successful extend, has a validUntil that is not later than the instant
\* at which the store expires the key, however late the reply arrived.
C18_ValidUntilPessimistic ==
    \A c \in Clients :
       (/\ cl[c].mode = "acquire" /\ cl[c].pc = "held"
        /\ cl[c].ret \in {"lease", "true"}
        /\ c \in LiveHolders)
       => cl[c].lease.validUntil <= store[cl[c].lease.key].exp

\* The extend sent by a renewal tick has failed (the script answered 0, or
\* the transport failed) and the loop continues while the operation runs.
FailedRenewal(c) ==
    /\ cl[c].mode = "auto"
    /\ cl[c].rcall.st = "done"
    /\ cl[c].rcall.res \in {"0", "err"}
    /\ cl[c].op = "running"
    /\ cl'[c].rcall = NoCall

C20_FailedRenewalNeverInterrupts ==
    /\ [][\A c \in Clients :
            FailedRenewal(c) => cl'[c].race = "pending"]_vars
    /\ [](\A c \in Clients :
            (cl[c].mode = "auto" /\ cl[c].nExt > cl[c].extensionCount
               /\ cl[c].race # "pending")
            => (/\ cl[c].op # "running"
                /\ cl[c].race = IF cl[c].op = "resolved" THEN "result"
                                ELSE "operror"))

\* The outcomes of autoExtendLock that are the operation's own.
OpOutcomes == {"result", "operror"}

\* The operation's outcome as the caller sees it.
outcomeOf(how) == IF how = "resolved" THEN "result" ELSE "operror"

\* C21: the first event decides.  When the operation completes with the
\* race still open, its result or error becomes the outcome, unmodified and
\* for good; a renewal-loop error that arises afterwards (an extend that was
\* in flight and fails; the budget check is not even reached) ends the loop
\* and is swallowed by the catch of the first extend().
C21_FirstEventDecides ==
    /\ [][\A c \in Clients :
            (/\ cl[c].mode = "auto" /\ cl[c].op = "running"
             /\ cl'[c].op # "running" /\ cl[c].race = "pending")
            => cl'[c].race = outcomeOf(cl'[c].op)]_vars
    /\ [][\A c \in Clients :
            (cl[c].mode = "auto" /\ cl[c].race \in OpOutcomes)
            => (/\ cl'[c].race = cl[c].race
                /\ cl'[c].op = cl[c].op
                /\ cl'[c].race = outcomeOf(cl[c].op))]_vars
    /\ [][\A c \in Clients :
            (/\ cl[c].mode = "auto" /\ cl[c].race \in OpOutcomes
             /\ cl[c].rcall.st = "done" /\ cl[c].rcall.res \in {"0", "err"}
             /\ cl'[c].rcall = NoCall)
            => (/\ cl'[c].renew = "done"
                /\ cl'[c].nDel = cl[c].nDel
                /\ cl'[c].pc = cl[c].pc)]_vars
    /\ [][\A c \in Clients :
            (/\ cl[c].mode = "auto" /\ cl[c].race \in OpOutcomes
             /\ cl[c].renew = "timer" /\ cl'[c].renew # "timer")
            => (/\ cl'[c].renew = "done" /\ cl'[c].rcall = NoCall
                /\ cl'[c].nExt = cl[c].nExt)]_vars

\* C21 witness: autoExtendLock has returned the operation's result, and the
\* extend that was in flight when the operation completed failed afterwards
\* and was discarded.
C21_Witness ==
    \E c \in Clients :
       /\ cl[c].mode = "auto" /\ cl[c].pc = "done"
       /\ cl[c].race = "result" /\ cl[c].op = "resolved"
       /\ cl[c].nExt > cl[c].extensionCount
       /\ cl[c].renew = "done" /\ cl[c].rcall = NoCall

\* C22: isReleased is set in the step in which the operation completes
\* (with the delivery of its result); once it is set it stays set and no
\* extend is initiated; a tick that finds it set sends nothing, schedules no
\* timer, and changes neither the outcome nor anything but the loop's end.
C22_CooperativeCancellation ==
    /\ [][\A c \in Clients :
            (cl[c].mode = "auto" /\ cl[c].op = "running"
               /\ cl'[c].op # "running")
            => cl'[c].isReleased]_vars
    /\ [][\A c \in Clients :
            cl[c].isReleased
            => (/\ cl'[c].isReleased
                /\ cl'[c].nExt = cl[c].nExt
                /\ cl[c].rcall = NoCall => cl'[c].rcall = NoCall)]_vars
    /\ [][\A c \in Clients :
            (/\ cl[c].isReleased
             /\ cl[c].renew = "timer" /\ cl'[c].renew # "timer")
            => cl'[c] = [cl[c] EXCEPT !.renew = "done", !.renewDue = 0]]_vars

\* C22 witness: the operation has completed and a tick has fired afterwards,
\* at a time when the lease needed a renewal the budget allowed; it did
\* nothing and the loop has ended.
C22_Witness ==
    \E c \in Clients :
       /\ cl[c].mode = "auto" /\ cl[c].isReleased
       /\ cl[c].race = "result" /\ cl[c].renew = "done"
       /\ cl[c].nExt = cl[c].extensionCount
       /\ cl[c].lease.validUntil - now < cl[c].threshold
       /\ ~exhausted(cl[c])

\* The invocation has no budget: maxExtensions is undefined or negative.
Unlimited(c) == cl[c].mode = "auto" /\ ~Limited(c)

\* With no budget the loop never ends with the extension-exhausted error, a
\* tick that finds timeLeft < threshold while the operation runs sends an
\* extend whatever the number of extensions so far, and when no extend has
\* failed the outcome of autoExtendLock is the operation's own.
UnlimitedRenewal ==
    /\ [](\A c \in Clients : Unlimited(c) => cl[c].race # "exhausted")
    /\ [][\A c \in Clients :
            (/\ Unlimited(c) /\ ~cl[c].isReleased
             /\ cl[c].renew = "timer" /\ cl'[c].renew # "timer"
             /\ cl[c].lease.validUntil - now < cl[c].threshold)
            => (/\ cl'[c].renew = "inflight"
                /\ cl'[c].rcall.cmd = "pexpire" /\ cl'[c].rcall.st = "sent"
                /\ cl'[c].nExt = cl[c].nExt + 1)]_vars
    /\ [](\A c \in Clients :
            (Unlimited(c) /\ cl[c].race \notin {"pending", "acqfail", "extfail"})
            => cl[c].race = outcomeOf(cl[c].op))

C24_ConstructorDefaults ==
    \A c \in Clients :
       cl[c].pc # "unbuilt" =>
          /\ cl[c].retryCount = nullish(cl[c].opts.retryCount, 10)
          /\ cl[c].retryDelay = nullish(cl[c].opts.retryDelay, 200)
          /\ cl[c].retryJitter = nullish(cl[c].opts.retryJitter, 200)
          /\ cl[c].driftPercent = nullish(cl[c].opts.driftFactor, 1)
          /\ cl[c].automaticExtensionThreshold =
                nullish(cl[c].opts.automaticExtensionThreshold, 500)

\* C25: round trip. A SET that reaches the store while the key is free is
\* answered OK, stores the token, and makes acquire return the lease at that
\* attempt; a release that reaches the store while the lease's key is still
\* there (it has not expired: the release follows immediately) is answered
\* 1 and leaves no key for the resource, and release returns true.
C25_RoundTrip ==
    [][\A c \in Clients :
          /\ (StoreStep(c, "del") /\ cl'[c].call.res # "err"
                /\ store[cl[c].call.key].val = cl[c].lease.value) =>
               /\ cl'[c].call.res = "1"
               /\ store'[cl[c].call.key] = Free
          /\ (RecvStep(c, "del") /\ cl[c].call.res = "1") =>
               cl'[c].ret = "true"
          /\ (StoreStep(c, "set") /\ cl'[c].call.res # "err"
                /\ store[cl[c].call.key] = Free) =>
               /\ cl'[c].call.res = "OK"
               /\ store'[cl[c].call.key].val = cl[c].call.value
          /\ (RecvStep(c, "set") /\ cl[c].call.res = "OK") =>
               /\ cl'[c].pc = "held"
               /\ cl'[c].ret = "lease"
               /\ cl'[c].lease.value = cl[c].call.value
               /\ cl'[c].nSet = cl[c].nSet]_vars

\* C25 witness: one client's release returned true, and another client
\* then acquired the resource at its first attempt and holds its key.
C25_Witness ==
    \E c, d \in Clients :
       /\ c # d
       /\ cl[c].api = "release" /\ cl[c].ret = "true" /\ cl[c].released
       /\ cl[d].pc = "held" /\ cl[d].api = "acquire" /\ cl[d].ret = "lease"
       /\ cl[d].nSet = 1
       /\ store[cl[d].lease.key].val = cl[d].lease.value
       /\ cl[d].lease.key = cl[c].lease.key

\* What a caller and the store see of a client: everything but the observer
\* and what the observer recorded.
observable(r) == [r EXCEPT !.onError = "none", !.errs = NoErrors]

\* C26 (the claim): the observer is observational only. Whatever observer
\* the engine has, the function that continues after a store call settled
\* goes on (its next store call, its sleep, its return value, the lease)
\* as the same function of an engine without observer does for the same
\* response.
C26_ObserverOnly ==
    [][\A c \in Clients :
          (cl[c].call.st = "done" /\ cl'[c] # cl[c]) =>
             \E j \in jitters(cl[c].retryJitter) :
                observable(cl'[c]) =
                   observable(settled([cl[c] EXCEPT !.onError = "none"],
                                      now, j))]_vars

\* C27 (the claim): every release or extend that fails (the store call
\* rejected, or the store answered 0 because the stored value is not the
\* lease's token) is reported to the observer, with an error of the kind of
\* the function.
C27_FailuresReported ==
    [][\A c \in Clients :
          /\ (RecvStep(c, "del") /\ cl[c].call.res # "1") =>
               /\ cl'[c].errs.release = cl[c].errs.release + 1
               /\ cl'[c].errs.last.kind = "release"
          /\ (RecvStep(c, "pexpire") /\ cl[c].call.res # "1") =>
               /\ cl'[c].errs.extend = cl[c].errs.extend + 1
               /\ cl'[c].errs.last.kind = "extend"]_vars

\* A renewal timer fires: the tick it runs ends the loop, sends an extend
\* or schedules the next timer.
TimerTick(c) ==
    /\ cl[c].renew = "timer"
    /\ cl'[c].op = cl[c].op
    /\ cl'[c].isReleased = cl[c].isReleased
    /\ <<cl'[c].renew, cl'[c].renewDue>> # <<cl[c].renew, cl[c].renewDue>>

\* C28: the threshold of an autoExtendLock call is its extensionThreshold
\* option when given, else the engine's automaticExtensionThreshold; a tick
\* (the first one, run when the lease is obtained, or one run by a timer)
\* sends an extend only if validUntil - now < threshold, and a timer's tick
\* that finds validUntil - now >= threshold sends nothing to the store.
C28_ThresholdRule ==
    /\ [](\A c \in Clients :
            (cl[c].mode = "auto" /\ cl[c].pc # "new") =>
               cl[c].threshold =
                  IF cl[c].extensionThreshold.def
                  THEN cl[c].extensionThreshold.n
                  ELSE cl[c].automaticExtensionThreshold)
    /\ [][\A c \in Clients :
            (cl'[c].nExt = cl[c].nExt + 1) =>
               /\ cl'[c].lease.validUntil - now < cl'[c].threshold
               /\ cl'[c].rcall.cmd = "pexpire"
               /\ cl'[c].rcall.st = "sent"]_vars
    /\ [][\A c \in Clients :
            (TimerTick(c) /\ cl[c].lease.validUntil - now >= cl[c].threshold)
            => (/\ cl'[c].nExt = cl[c].nExt
                /\ cl'[c].rcall = NoCall
                /\ cl'[c].call = cl[c].call
                /\ store' = store)]_vars

\* C28 witness: with an extensionThreshold given, the first tick found the
\* time left not below it and sent nothing; a later tick found it below and
\* its extend, the first one, is on its way.
C28_Witness ==
    \E c \in Clients :
       /\ cl[c].mode = "auto" /\ cl[c].op = "running"
       /\ cl[c].extensionThreshold.def
       /\ cl[c].threshold = cl[c].extensionThreshold.n
       /\ cl[c].ttl - drift(cl[c].ttl) >= cl[c].threshold
       /\ cl[c].lease.validUntil - now < cl[c].threshold
       /\ cl[c].nExt = 1 /\ cl[c].extensionCount = 0
       /\ cl[c].renew = "inflight" /\ cl[c].rcall.st = "sent"

\* A renewal timer is set in this step.
TimerSet(c) ==
    /\ cl'[c].renew = "timer"
    /\ <<cl'[c].renew, cl'[c].renewDue>> # <<cl[c].renew, cl[c].renewDue>>

\* C29: a tick that does not end the loop (the first tick or a timer's tick
\* that finds validUntil - now >= threshold, or a tick whose extend
\* succeeded) sets the timer of the next tick, with the delay
\* max(validUntil - now - threshold, 0) computed from the lease's current
\* validUntil at the time the timer is set; the delay is never negative,
\* and it is 0 when the threshold is larger than the ttl.
C29_NextTickDelay ==
    /\ [][\A c \in Clients :
            TimerSet(c) =>
               /\ cl'[c].renewDue - now =
                    Max(cl'[c].lease.validUntil - now - cl'[c].threshold, 0)
               /\ cl'[c].renewDue - now >= 0
               /\ cl'[c].threshold > cl'[c].ttl => cl'[c].renewDue = now]_vars
    /\ [][\A c \in Clients :
            /\ (/\ TimerTick(c) /\ ~cl[c].isReleased
                 /\ cl[c].lease.validUntil - now >= cl[c].threshold)
               => cl'[c].renew = "timer"
            /\ (/\ cl[c].rcall.st = "done" /\ cl[c].rcall.res = "1"
                 /\ cl'[c].rcall = NoCall)
               => (TimerSet(c) /\ cl'[c].extensionCount
                                    = cl[c].extensionCount + 1)
            /\ (/\ cl[c].mode = "auto" /\ RecvStep(c, "set")
                 /\ cl[c].call.res = "OK"
                 /\ cl'[c].lease.validUntil - now >= cl'[c].threshold)
               => TimerSet(c)]_vars

\* C29 witness: with a threshold larger than the ttl, an extend has
\* succeeded and the next tick is due at once, the time left minus the
\* threshold being negative.
C29_Witness ==
    \E c \in Clients :
       /\ cl[c].mode = "auto" /\ cl[c].op = "running"
       /\ cl[c].threshold > cl[c].ttl
       /\ cl[c].extensionCount = 1
       /\ cl[c].renew = "timer" /\ cl[c].renewDue = now
       /\ cl[c].lease.validUntil - now - cl[c].threshold < 0

\* C30: an invocation of autoExtendLock has at most one renewal activity
\* outstanding: a pending timer or an extend in flight, never both (and the
\* loop, once ended, starts nothing again). A timer's tick that fires after
\* the operation has finished sends nothing, sets no timer and ends the
\* loop, so that at most one tick fires after the operation has finished.
C30_OneRenewalActivity ==
    /\ [](\A c \in Clients :
            /\ cl[c].renew = "timer" => cl[c].rcall = NoCall
            /\ cl[c].renew = "inflight" <=> cl[c].rcall # NoCall
            /\ cl[c].rcall # NoCall => cl[c].rcall.cmd = "pexpire"
            /\ cl[c].mode # "auto" => cl[c].renew = "off")
    /\ [][\A c \in Clients :
            /\ (TimerTick(c) /\ cl[c].isReleased) =>
                  cl'[c] = [cl[c] EXCEPT !.renew = "done", !.renewDue = 0]
            /\ cl[c].renew = "done" =>
                  (/\ cl'[c].renew = "done"
                   /\ cl'[c].rcall = NoCall
                   /\ cl'[c].nExt = cl[c].nExt)
            /\ (cl[c].isReleased /\ cl[c].renew = "inflight") =>
                  cl'[c].nExt = cl[c].nExt]_vars

\* C30 witness: the operation has finished and autoExtendLock has returned
\* its result after one extension; the one tick left has fired, with time
\* left below the threshold, and the loop has ended with nothing
\* outstanding.
C30_Witness ==
    \E c \in Clients :
       /\ cl[c].mode = "auto" /\ cl[c].pc = "done" /\ cl[c].isReleased
       /\ cl[c].op = "resolved" /\ cl[c].race = "result"
       /\ cl[c].extensionCount = 1 /\ cl[c].nExt = 1
       /\ cl[c].renew = "done" /\ cl[c].rcall = NoCall
       /\ cl[c].call = NoCall

\* The reply 1 of a compare-extend is handled in this step, by the renewal
\* loop or by a caller's extend.
ExtendSucceeded(c) ==
    \/ (cl[c].rcall.st = "done" /\ cl[c].rcall.res = "1"
          /\ cl'[c].rcall = NoCall)
    \/ (RecvStep(c, "pexpire") /\ cl[c].call.res = "1")

\* C31: once a lease is acquired its key and token never change; its
\* validUntil changes only in the step that handles a successful extend
\* (not by retries of acquire, release, a failed extend, the deadline timer
\* or the operation); extensionCount changes only in the renewal loop, by
\* exactly one for each successful extend of the loop.
C31_LeaseFrame ==
    [][\A c \in Clients :
          /\ cl[c].lease.value # NoToken =>
                /\ cl'[c].lease.key = cl[c].lease.key
                /\ cl'[c].lease.value = cl[c].lease.value
                /\ cl'[c].lease.validUntil # cl[c].lease.validUntil =>
                      ExtendSucceeded(c)
          /\ cl'[c].extensionCount # cl[c].extensionCount =>
                /\ cl[c].rcall.st = "done" /\ cl[c].rcall.res = "1"
                /\ cl'[c].extensionCount = cl[c].extensionCount + 1
          /\ (cl[c].rcall.st = "done" /\ cl[c].rcall.res = "1"
                /\ cl'[c].rcall = NoCall) =>
                cl'[c].extensionCount = cl[c].extensionCount + 1]_vars

\* C31 witness: the renewal loop has extended the lease once, the operation
\* is running, and the key is in the store under the lease's token; the
\* lease's validUntil is that of the extension.
C31_Witness ==
    \E c \in Clients :
       /\ cl[c].mode = "auto" /\ cl[c].op = "running"
       /\ cl[c].extensionCount = 1 /\ cl[c].renew = "timer"
       /\ store[cl[c].lease.key].val = cl[c].lease.value
       /\ cl[c].lease.validUntil > cl[c].ttl - drift(cl[c].ttl)

ReleaseApplied(c) ==
    /\ cl[c].rcall.cmd = "del"
    /\ cl[c].rcall.st = "sent"
    /\ cl'[c].rcall.st = "done"
    /\ cl'[c].rcall.res # "err"

\* The store applies, and answers, the extend issued beside a release.
ExtendApplied(c) ==
    /\ cl[c].api = "both"
    /\ StoreStep(c, "pexpire")
    /\ cl'[c].call.res # "err"

\* The store holds the key of the client's lease under the lease's token.
Owned(c) == store[cl[c].lease.key].val = cl[c].lease.value

\* C33: extend and release issued at once for an owned lease (the store
\* answers both, the key has not expired). Each is applied by the store in
\* one step, in either order, and neither throws: the release is answered 1,
\* removes the key and returns true; the extend is answered 1, moves the
\* key's expiry, returns true and updates validUntil when it is applied
\* while the key is there (before the release), and is answered 0, changes
\* nothing and returns false when it is applied after the release; once
\* release has returned true the key is absent.
C33_ExtendReleaseRace ==
    /\ [][\A c \in Clients :
            /\ (ReleaseApplied(c) /\ Owned(c)) =>
                  /\ cl'[c].rcall.res = "1"
                  /\ store'[cl[c].lease.key] = Free
            /\ (ExtendApplied(c) /\ Owned(c)) =>
                  /\ cl'[c].call.res = "1"
                  /\ store'[cl[c].lease.key] =
                        [val |-> cl[c].lease.value,
                         exp |-> now + cl[c].call.ttl]
            /\ (ExtendApplied(c) /\ ~Owned(c)) =>
                  /\ cl'[c].call.res = "0"
                  /\ store' = store
            /\ (ExtendApplied(c) /\ (cl[c].rcall.res = "1" \/ cl[c].released))
                  => cl'[c].call.res = "0"
            /\ (cl[c].api = "both" /\ RecvStep(c, "pexpire")) =>
                  /\ cl'[c].ret = IF cl[c].call.res = "1" THEN "true"
                                  ELSE "false"
                  /\ cl'[c].lease.validUntil =
                        IF cl[c].call.res = "1"
                        THEN validUntilAt(now, cl[c].call.ttl)
                        ELSE cl[c].lease.validUntil
            /\ (cl[c].rcall.cmd = "del" /\ cl[c].rcall.st = "done"
                  /\ cl'[c].rcall = NoCall) =>
                  cl'[c].ret2 = IF cl[c].rcall.res = "1" THEN "true"
                                ELSE "false"]_vars
    /\ [](\A c \in Clients :
            (cl[c].api = "both" /\ (cl[c].ret2 = "true" \/ cl[c].rcall.res = "1"))
            => ~Owned(c))

\* C33 witness: the store applied the extend before the release; both
\* have returned true and the key is absent.
C33_Witness ==
    \E c \in Clients :
       /\ cl[c].api = "both"
       /\ cl[c].ret = "true" /\ cl[c].ret2 = "true"
       /\ cl[c].call = NoCall /\ cl[c].rcall = NoCall
       /\ store[cl[c].lease.key] = Free

\* C34: once lock() has its lease it eventually settles, also when the
\* operation never does (the store answers every call): the deadline timer
\* is set for ttl ms after acquire returned, and a lock() that has settled
\* while its operation is still running has had its timer fired, has
\* released the lease once and throws the timeout error, which carries the
\* ttl.
C34_LockSettles ==
    /\ \A c \in Clients :
          (cl[c].mode = "lock" /\ cl[c].pc = "running")
             ~> (cl[c].pc = "done")
    /\ [][\A c \in Clients :
            (cl[c].mode = "lock" /\ cl[c].pc # "running"
               /\ cl'[c].pc = "running")
            => (cl'[c].timer = "armed"
                  /\ cl'[c].timerDue = now + cl[c].ttl)]_vars
    /\ [](\A c \in Clients :
            (cl[c].mode = "lock" /\ cl[c].pc = "done"
               /\ cl[c].op = "running")
            => (/\ cl[c].race = "timeout"
                /\ cl[c].timer = "fired"
                /\ cl[c].timeoutMs = cl[c].ttl
                /\ cl[c].nDel = 1
                /\ cl[c].call = NoCall))

\* C34 witness: the operation is still running, the deadline timer has
\* fired, the release has returned and lock() has thrown the timeout error.
C34_Witness ==
    \E c \in Clients :
       /\ cl[c].mode = "lock" /\ cl[c].pc = "done"
       /\ cl[c].op = "running" /\ cl[c].race = "timeout"
       /\ cl[c].timer = "fired" /\ cl[c].nDel = 1
       /\ cl[c].ret \in {"true", "false"}

C37_NoLeakedLease ==
    \A c \in Clients :
       (cl[c].api = "acquire" /\ cl[c].pc = "idle" /\ cl[c].ret = "null")
       => store[cl[c].key].val # cl[c].value

\* The operation of the client's lock() is running and its deadline timer
\* has not fired.
InSection(c) ==
    /\ cl[c].mode = "lock" /\ cl[c].pc = "running"
    /\ cl[c].op = "running" /\ cl[c].timer = "armed"

\* C38 (the claim): exclusive critical sections under lock(). While the
\* operation of a lock() runs, before its deadline, the store holds the
\* resource under that caller's token, and the operations of two lock()
\* calls on the same resource are never running at the same time, whatever
\* the delay of the store's replies.
C38_ExclusiveSections ==
    /\ \A c \in Clients :
          InSection(c) => store[cl[c].lease.key].val = cl[c].lease.value
    /\ \A c, d \in Clients :
          (c # d /\ InSection(c) /\ InSection(d))
          => cl[c].lease.key # cl[d].lease.key

\* C39 (the claim): autoExtendLock sends the compare-delete of its lease
\* only after the protected operation has completed: while the operation
\* is running no release of the lease has been issued.
C39_ReleaseAfterOperation ==
    \A c \in Clients :
       (cl[c].mode = "auto" /\ cl[c].op = "running")
       => (cl[c].nDel = 0 /\ cl[c].call.cmd # "del")

====
